---------------------------- MODULE Spec2Model ----------------------------
(***************************************************************************)
(* Model of the AI News Agent: the Gemini summarizer, the orchestrator,    *)
(* the scheduler, the e-mail sender and the news scraper.  Each component  *)
(* is a state machine over its own variables; a component's specification  *)
(* leaves the other components' variables unchanged.                       *)
(*                                                                         *)
(* Text is a sequence of one-character strings, so that strip, split,      *)
(* join, slicing and length are computed as Python computes them.          *)
(***************************************************************************)
EXTENDS Integers, Sequences, FiniteSets, TLC

VARIABLES
    sm,       \* GeminiSummarizer.summarize: one call in progress
    orch,     \* NewsOrchestrator.run_daily_process / main: one run in progress
    sched,    \* NewsScheduler: is_running, scheduler_thread, jobs, caller position
    threads,  \* the background threads running NewsScheduler._run_scheduler
    mail,     \* EmailSender.send_email: one call in progress
    scr       \* NewsScraper.scrape_all_sources: one call in progress

vars == <<sm, orch, sched, threads, mail, scr>>

-----------------------------------------------------------------------------
(* Text helpers (Python str operations)                                    *)

Min(a, b) == IF a < b THEN a ELSE b

\* s[:n]
Take(s, n) == SubSeq(s, 1, Min(n, Len(s)))

\* s[n:] counted from 0, i.e. drop the first n characters
Drop(s, n) == IF n >= Len(s) THEN <<>> ELSE SubSeq(s, n + 1, Len(s))

IsSpace(c) == c = " "

\* a run of n copies of character c
Rep(c, n) == [i \in 1..n |-> c]

SetMin(S) == CHOOSE x \in S : \A y \in S : x <= y
SetMax(S) == CHOOSE x \in S : \A y \in S : x >= y

\* str.strip(): from the first to the last character that is not whitespace
Strip(s) ==
    LET solid == {i \in 1..Len(s) : ~IsSpace(s[i])}
    IN  IF solid = {} THEN <<>> ELSE SubSeq(s, SetMin(solid), SetMax(solid))

\* str.endswith('.')
EndsWithDot(s) == s # <<>> /\ s[Len(s)] = "."

\* position of the first ". " in s, 0 if none
FindDotSpace(s) ==
    LET found == {i \in 1..(Len(s) - 1) : s[i] = "." /\ s[i + 1] = " "}
    IN  IF found = {} THEN 0 ELSE SetMin(found)

\* str.split('. ')
RECURSIVE SplitDotSpace(_)
SplitDotSpace(s) ==
    LET p == FindDotSpace(s) IN
    IF p = 0 THEN <<s>>
    ELSE <<SubSeq(s, 1, p - 1)>> \o SplitDotSpace(Drop(s, p + 1))

\* len(str.split()): the number of whitespace-separated words
WordCount(s) ==
    Cardinality({i \in 1..Len(s) : ~IsSpace(s[i]) /\ (i = 1 \/ IsSpace(s[i - 1]))})

\* '. '.join(parts)
RECURSIVE JoinDotSpace(_)
JoinDotSpace(parts) ==
    IF parts = <<>> THEN <<>>
    ELSE IF Len(parts) = 1 THEN parts[1]
    ELSE parts[1] \o <<".", " ">> \o JoinDotSpace(Tail(parts))

Ellipsis == <<".", ".", ".">>

-----------------------------------------------------------------------------
(* GeminiSummarizer                                                        *)

MinContentLen == 50        \* len(content.strip()) < 50
MaxSentencesScanned == 5   \* sentences[:5]
MaxSummaryWords == 100     \* word_count + sentence_words > 100
MaxSummarySentences == 3   \* len(summary_sentences) >= 3
TruncateLen == 200         \* content[:200] + "..."

\* Faulty variant: the loop stops only once more than three sentences are kept
RECURSIVE FallbackLoopKeepsFour(_, _, _)
FallbackLoopKeepsFour(sentences, summary_sentences, word_count) ==
    IF sentences = <<>> THEN summary_sentences
    ELSE LET sentence == Strip(Head(sentences))
             sentence_words == WordCount(sentence)
         IN  IF sentence = <<>>
             THEN FallbackLoopKeepsFour(Tail(sentences), summary_sentences, word_count)
             ELSE IF word_count + sentence_words > MaxSummaryWords
             THEN summary_sentences
             ELSE IF Len(summary_sentences) + 1 > MaxSummarySentences
             THEN Append(summary_sentences, sentence)
             ELSE FallbackLoopKeepsFour(Tail(sentences),
                                        Append(summary_sentences, sentence),
                                        word_count + sentence_words)

\* the for loop of _create_fallback_summary over the sentences still to scan
RECURSIVE FallbackLoop(_, _, _)
FallbackLoop(sentences, summary_sentences, word_count) ==
    IF sentences = <<>> THEN summary_sentences
    ELSE LET sentence == Strip(Head(sentences))
             sentence_words == WordCount(sentence)
         IN  IF sentence = <<>>
             THEN FallbackLoop(Tail(sentences), summary_sentences, word_count)
             ELSE IF word_count + sentence_words > MaxSummaryWords
             THEN summary_sentences
             ELSE IF Len(summary_sentences) + 1 >= MaxSummarySentences
             THEN Append(summary_sentences, sentence)
             ELSE FallbackLoop(Tail(sentences), Append(summary_sentences, sentence),
                               word_count + sentence_words)

\* summary_sentences as collected by _create_fallback_summary
SummarySentences(content) ==
    FallbackLoop(Take(SplitDotSpace(content), MaxSentencesScanned), <<>>, 0)

\* GeminiSummarizer._create_fallback_summary
CreateFallbackSummary(content) ==
    LET joined == JoinDotSpace(SummarySentences(content))
        fallback_summary == IF EndsWithDot(joined) THEN joined ELSE joined \o <<".">>
    IN  IF fallback_summary # <<>> THEN fallback_summary
        ELSE Take(content, TruncateLen) \o Ellipsis

\* What one generate_content call can do: return text, return an empty text,
\* or raise.
ResponseTexts == { <<"s", "u", "m">>, <<" ", "s", "u", "m", " ">>, <<" ">> }

ApiOutcomes ==
    {[kind |-> "text", text |-> t] : t \in ResponseTexts}
        \cup {[kind |-> "empty", text |-> <<>>], [kind |-> "error", text |-> <<>>]}

\* The state of a summarize call that has not been made.
SumIdle ==
    [pc |-> "idle", content |-> <<>>, retry_attempts |-> 0, attempt |-> 0,
     events |-> <<>>, outs |-> <<>>, result |-> <<>>]

\* Faulty variant: only empty content is returned without a call
SumEnterGuardsEmptyOnly(content, retry_attempts) ==
    LET st == [SumIdle EXCEPT !.content = content, !.retry_attempts = retry_attempts]
    IN  IF content = <<>>
        THEN [st EXCEPT !.pc = "returned", !.result = content]
        ELSE IF retry_attempts = 0
        THEN [st EXCEPT !.pc = "returned", !.result = CreateFallbackSummary(content)]
        ELSE [st EXCEPT !.pc = "attempt"]

\* summarize: the guard on short content, then the first loop iteration.
\* range(retry_attempts) is empty when retry_attempts = 0.
SumEnter(content, retry_attempts) ==
    LET st == [SumIdle EXCEPT !.content = content, !.retry_attempts = retry_attempts]
    IN  IF content = <<>> \/ Len(Strip(content)) < MinContentLen
        THEN [st EXCEPT !.pc = "returned", !.result = content]
        ELSE IF retry_attempts = 0
        THEN [st EXCEPT !.pc = "returned", !.result = CreateFallbackSummary(content)]
        ELSE [st EXCEPT !.pc = "attempt"]

\* the end of one loop iteration that did not return or raise: the next
\* attempt, or past the loop the fallback summary
SumLoopNext(st) ==
    IF st.attempt + 1 < st.retry_attempts
    THEN [st EXCEPT !.attempt = @ + 1]
    ELSE [st EXCEPT !.pc = "returned", !.attempt = @ + 1,
                    !.result = CreateFallbackSummary(st.content)]

\* the except branch of the loop body: sleep and go on, or re-raise on the
\* last attempt
SumOnError(st) ==
    IF st.attempt < st.retry_attempts - 1
    THEN SumLoopNext([st EXCEPT !.events = Append(@, "sleep")])
    ELSE [st EXCEPT !.pc = "raised"]

\* one iteration of the retry loop of summarize, given what the API call did
SumAttempt(st, o) ==
    LET called == [st EXCEPT !.events = Append(@, "call"), !.outs = Append(@, o.kind)]
    IN  CASE o.kind = "text"  -> [called EXCEPT !.pc = "returned", !.result = Strip(o.text)]
          [] o.kind = "empty" -> SumLoopNext(called)
          [] o.kind = "error" -> SumOnError(called)

\* a whole summarize call, given what each API call would do
RECURSIVE SumRun(_, _)
SumRun(st, outcomes) ==
    IF st.pc # "attempt" THEN st
    ELSE SumRun(SumAttempt(st, Head(outcomes)), Tail(outcomes))

Summarize(content, retry_attempts, outcomes) ==
    SumRun(SumEnter(content, retry_attempts), outcomes)

\* Inputs of the summarizer: retry_attempts is configuration, the contents
\* are texts on both sides of every threshold of the code.
MaxRetryAttempts == 3

Word(n) == Rep("a", n)

\* n one-letter words separated by single spaces
Words(n) == [i \in 1..(2 * n - 1) |-> IF i % 2 = 1 THEN "a" ELSE " "]

ShortText == Word(5)
PaddedText == Rep(" ", 10) \o Word(45) \o Rep(" ", 10)
TwoSentences == Word(30) \o <<".", " ">> \o Word(30) \o <<".">>
FourSentences ==
    Word(20) \o <<".", " ">> \o Word(21) \o <<".", " ">> \o Word(22)
        \o <<".", " ">> \o Word(23) \o <<".">>
NoPeriod == Word(60)
ManyWords == Words(101)
BlankSentences == [i \in 1..60 |-> IF i % 2 = 1 THEN "." ELSE " "]
LongText == Words(60) \o <<".", " ">> \o Words(60) \o <<".", " ">> \o Word(20)
DoubleDotEnd == Word(30) \o <<".", " ">> \o Word(30) \o <<".", ".">>
LateSentences == <<".", " ", ".", " ", ".", " ">> \o FourSentences

SumContents ==
    {ShortText, PaddedText, TwoSentences, FourSentences, NoPeriod, ManyWords,
     BlankSentences, LongText, DoubleDotEnd, LateSentences}

\* a caller invokes summarize(content)
SumCall ==
    /\ sm.pc = "idle"
    /\ \E content \in SumContents, r \in 0..MaxRetryAttempts :
           sm' = SumEnter(content, r)
    /\ UNCHANGED <<orch, sched, threads, mail, scr>>

\* one iteration of the retry loop: the API call and what follows it
SumApi ==
    /\ sm.pc = "attempt"
    /\ \E o \in ApiOutcomes : sm' = SumAttempt(sm, o)
    /\ UNCHANGED <<orch, sched, threads, mail, scr>>

SumNext == SumCall \/ SumApi

-----------------------------------------------------------------------------
(* EmailSender                                                             *)

MaxRecipients == 3

RecipientEmails == {"r1", "r2"}

\* the configured recipient lists: never empty (__init__ raises on an empty
\* list), an address may be listed twice
RecipientLists ==
    UNION {[1..n -> RecipientEmails] : n \in 1..MaxRecipients}

MailIdle ==
    [pc |-> "idle", recipients |-> <<>>, use_tls |-> FALSE, construct |-> "none",
     session |-> "none", i |-> 0, attempts |-> <<>>, close |-> "none",
     result |-> "none"]

\* what opening the session can do: smtplib.SMTP(...) connects, starttls()
\* runs only when use_tls, login() authenticates
SessionOutcomes(use_tls) ==
    {"ok", "connect_error", "login_error"}
        \cup (IF use_tls THEN {"tls_error"} ELSE {})

\* send_email up to the call of _send_via_smtp: _create_message builds the
\* message or raises (a missing key of email_content); the except clause of
\* send_email turns the error into False
MailAfterCreate(m, recipients, use_tls, construct) ==
    LET c == [m EXCEPT !.recipients = recipients, !.use_tls = use_tls,
                       !.construct = construct]
    IN  IF construct = "ok" THEN [c EXCEPT !.pc = "session"]
        ELSE [c EXCEPT !.pc = "returned", !.result = "False"]

\* _send_via_smtp up to the recipient loop: an error of connect, starttls or
\* login leaves the with block and send_email returns False
MailAfterSession(m, outcome) ==
    IF outcome = "ok"
    THEN [m EXCEPT !.pc = "sending", !.session = outcome, !.i = 1]
    ELSE [m EXCEPT !.pc = "returned", !.session = outcome, !.result = "False"]

\* Faulty variant: an error of one send leaves the loop and the call
MailAfterSendAbortsOnError(m, ok) ==
    IF ok
    THEN [m EXCEPT !.attempts = Append(@, [to |-> m.recipients[m.i], ok |-> ok]),
                   !.i = @ + 1]
    ELSE [m EXCEPT !.attempts = Append(@, [to |-> m.recipients[m.i], ok |-> ok]),
                   !.pc = "returned", !.result = "False"]

\* one iteration of the recipient loop: the send is attempted; an error is
\* caught, logged, and the loop continues with the next recipient
MailAfterSend(m, ok) ==
    [m EXCEPT !.attempts = Append(@, [to |-> m.recipients[m.i], ok |-> ok]),
              !.i = @ + 1]

\* past the loop the with block is left: SMTP.__exit__ sends QUIT and raises
\* SMTPResponseException on a reply other than 221 (a dropped connection is
\* ignored); send_email returns True, or False when leaving the block raised
MailAfterClose(m, close) ==
    [m EXCEPT !.pc = "returned", !.close = close,
              !.result = IF close = "ok" THEN "True" ELSE "False"]

\* a caller invokes send_email(email_content)
MailCall ==
    /\ mail.pc = "idle"
    /\ \E recipients \in RecipientLists, use_tls \in BOOLEAN,
          construct \in {"ok", "error"} :
           mail' = MailAfterCreate(mail, recipients, use_tls, construct)
    /\ UNCHANGED <<sm, orch, sched, threads, scr>>

MailSession ==
    /\ mail.pc = "session"
    /\ \E outcome \in SessionOutcomes(mail.use_tls) :
           mail' = MailAfterSession(mail, outcome)
    /\ UNCHANGED <<sm, orch, sched, threads, scr>>

MailSendOne ==
    /\ mail.pc = "sending"
    /\ mail.i <= Len(mail.recipients)
    /\ \E ok \in BOOLEAN : mail' = MailAfterSend(mail, ok)
    /\ UNCHANGED <<sm, orch, sched, threads, scr>>

MailClose ==
    /\ mail.pc = "sending"
    /\ mail.i > Len(mail.recipients)
    /\ \E close \in {"ok", "error"} : mail' = MailAfterClose(mail, close)
    /\ UNCHANGED <<sm, orch, sched, threads, scr>>

MailNext == MailCall \/ MailSession \/ MailSendOne \/ MailClose

-----------------------------------------------------------------------------
(* NewsScraper                                                             *)

\* Time is counted in seconds.
SecondsPerHour == 3600
StartTime == 1000000       \* the clock when scrape_all_sources is called

\* An element a page may or may not hold, with its text.
NoElement == [present |-> FALSE, text |-> <<>>]
Elem(text) == [present |-> TRUE, text |-> text]

\* The date element of a candidate: absent; present with a text none of the
\* seven formats of _parse_date matches; or present with a text one of them
\* parses to the time t.
NoDate == [present |-> FALSE, parsed |-> FALSE, t |-> 0]
BadDate == [present |-> TRUE, parsed |-> FALSE, t |-> 0]
DateAt(t) == [present |-> TRUE, parsed |-> TRUE, t |-> t]

\* NewsScraper._parse_date: the parsed time, or the current time when no
\* format matches
ParseDate(date_element, now) ==
    IF date_element.parsed THEN date_element.t ELSE now

\* Faulty variant: an article dated exactly at the cutoff is not recent
IsRecentArticleAfterCutoffOnly(published_date, now, hours_lookback) ==
    published_date > now - hours_lookback * SecondsPerHour

\* NewsScraper._is_recent_article (published_date is never None here)
IsRecentArticle(published_date, now, hours_lookback) ==
    published_date >= now - hours_lookback * SecondsPerHour

MinTitleLen == 10

\* NewsScraper._extract_article_data: the title element is the first of the
\* class-keyword match, the first heading and the first anchor; no title
\* element, or a title shorter than 10 characters, yields None (ok = FALSE)
TitleElement(element) ==
    IF element.class_title.present THEN element.class_title
    ELSE IF element.heading.present THEN element.heading
    ELSE element.anchor

\* Faulty variant: only an empty title is rejected
ExtractArticleDataKeepsShortTitles(element, source_name, now) ==
    LET title_element == TitleElement(element)
        title == Strip(title_element.text)
        summary == IF element.summary.present THEN Strip(element.summary.text) ELSE <<>>
        published_date ==
            IF element.date.present THEN ParseDate(element.date, now) ELSE now
        article == [title |-> title, url |-> element.href, summary |-> summary,
                    content |-> summary, published_date |-> published_date,
                    source |-> source_name]
    IN  [ok |-> title_element.present /\ title # <<>>, article |-> article]

\* Faulty variant: an article without a date element gets the minimum date
ExtractArticleDataDefaultsToMin(element, source_name, now) ==
    LET title_element == TitleElement(element)
        title == Strip(title_element.text)
        summary == IF element.summary.present THEN Strip(element.summary.text) ELSE <<>>
        published_date ==
            IF element.date.present THEN ParseDate(element.date, now) ELSE 0
        article == [title |-> title, url |-> element.href, summary |-> summary,
                    content |-> summary, published_date |-> published_date,
                    source |-> source_name]
    IN  [ok |-> title_element.present /\ Len(title) >= MinTitleLen, article |-> article]

ExtractArticleData(element, source_name, now) ==
    LET title_element == TitleElement(element)
        title == Strip(title_element.text)
        summary == IF element.summary.present THEN Strip(element.summary.text) ELSE <<>>
        published_date ==
            IF element.date.present THEN ParseDate(element.date, now) ELSE now
        article == [title |-> title, url |-> element.href, summary |-> summary,
                    content |-> summary, published_date |-> published_date,
                    source |-> source_name]
    IN  IF ~title_element.present THEN [ok |-> FALSE, article |-> article]
        ELSE IF title = <<>> \/ Len(title) < MinTitleLen
        THEN [ok |-> FALSE, article |-> article]
        ELSE [ok |-> TRUE, article |-> article]

\* the loop of _scrape_ai_news, _scrape_verge, _scrape_techcrunch and
\* _scrape_generic over the candidate elements of a page
RECURSIVE ScrapeElements(_, _, _, _)
ScrapeElements(elements, source_name, now, hours_lookback) ==
    IF elements = <<>> THEN <<>>
    ELSE LET x == ExtractArticleData(Head(elements), source_name, now)
             rest == ScrapeElements(Tail(elements), source_name, now, hours_lookback)
         IN  IF x.ok /\ IsRecentArticle(x.article.published_date, now, hours_lookback)
             THEN <<x.article>> \o rest
             ELSE rest

\* NewsScraper.scrape_source: a network error, a non-2xx response
\* (raise_for_status) and a parse error are caught and give no articles
ScrapeSource(source, fetched, now, hours_lookback) ==
    IF fetched.kind = "ok"
    THEN ScrapeElements(fetched.page, source.name, now, hours_lookback)
    ELSE <<>>

\* ConfigManager.get_news_sources: the enabled sources, in configured order
RECURSIVE EnabledSources(_)
EnabledSources(sources) ==
    IF sources = <<>> THEN <<>>
    ELSE IF Head(sources).enabled
    THEN <<Head(sources)>> \o EnabledSources(Tail(sources))
    ELSE EnabledSources(Tail(sources))

\* list.sort(key=published_date, reverse=True): a stable insertion of each
\* article after the articles whose date is not older
DateMin == 0               \* datetime.min

\* the sort key x.get('published_date', datetime.min)
SortKey(article) ==
    IF "published_date" \in DOMAIN article THEN article.published_date ELSE DateMin

RECURSIVE InsertByDate(_, _)
InsertByDate(sorted, article) ==
    IF sorted = <<>> THEN <<article>>
    ELSE IF SortKey(Head(sorted)) >= SortKey(article)
    THEN <<Head(sorted)>> \o InsertByDate(Tail(sorted), article)
    ELSE <<article>> \o sorted

RECURSIVE SortByDateDesc(_)
SortByDateDesc(articles) ==
    IF articles = <<>> THEN <<>>
    ELSE InsertByDate(SortByDateDesc(SubSeq(articles, 1, Len(articles) - 1)),
                      articles[Len(articles)])

\* Faulty variant: the list is cut to max_articles before it is sorted
LimitedArticlesCutsBeforeSort(all_articles, max_articles) ==
    SortByDateDesc(Take(all_articles, max_articles))

\* the end of scrape_all_sources: sort by date, keep the first max_articles
LimitedArticles(all_articles, max_articles) ==
    Take(SortByDateDesc(all_articles), max_articles)

\* Configuration of the scraper (defaults of NewsScraper.__init__)
RateLimitDelay == 2
HoursLookback == 24
MaxSources == 2
MaxKeep == 3               \* the largest max_articles configured

SourceNames == <<"s1", "s2", "s3", "s4">>

\* the configured source lists: the first n names, each enabled or not
SourceConfigs ==
    UNION {{[k \in 1..n |-> [name |-> SourceNames[k], url |-> SourceNames[k],
                             enabled |-> flags[k]]] :
                flags \in [1..n -> BOOLEAN]} : n \in 0..MaxSources}

\* Publish dates around the cutoff of the first source.
OldTime == StartTime - HoursLookback * SecondsPerHour - 1
EdgeTime == StartTime - HoursLookback * SecondsPerHour + 1
RecentTime == StartTime - 60
CutoffTime == StartTime - HoursLookback * SecondsPerHour

Candidate(class_title, heading, anchor, date) ==
    [class_title |-> class_title, heading |-> heading, anchor |-> anchor,
     href |-> IF anchor.present THEN "href" ELSE "", summary |-> Elem(Word(3)),
     date |-> date]

NewElement == Candidate(Elem(Word(12)), NoElement, Elem(Word(3)), DateAt(RecentTime))
OldElement == Candidate(NoElement, Elem(Word(11)), NoElement, DateAt(OldTime))
EdgeElement == Candidate(NoElement, NoElement, Elem(Word(10)), DateAt(EdgeTime))
UndatedElement == Candidate(Elem(Word(13)), NoElement, NoElement, NoDate)
BadDateElement == Candidate(NoElement, Elem(<<" ">> \o Word(14)), NoElement, BadDate)
ShortTitleElement == Candidate(Elem(Word(9)), Elem(Word(20)), NoElement, DateAt(RecentTime))
NoTitleElement == Candidate(NoElement, NoElement, NoElement, DateAt(RecentTime))
CutoffElement == Candidate(NoElement, Elem(Word(15)), NoElement, DateAt(CutoffTime))

\* the candidate elements find_all yields for a fetched page
Pages ==
    { <<>>, <<NewElement>>, <<OldElement, NewElement>>, <<UndatedElement, EdgeElement>>,
      <<ShortTitleElement, BadDateElement>>,
      <<NoTitleElement, EdgeElement, UndatedElement>>,
      <<CutoffElement, OldElement, BadDateElement>> }

\* what fetching and parsing one source can do
FetchOutcomes ==
    {[kind |-> k, page |-> <<>>] : k \in {"network_error", "http_error", "parse_error"}}
        \cup {[kind |-> "ok", page |-> pg] : pg \in Pages}

ScrIdle ==
    [pc |-> "idle", configured |-> <<>>, sources |-> <<>>, max_articles |-> 0,
     idx |-> 0, now |-> StartTime, all_articles |-> <<>>, events |-> <<>>,
     fetched |-> <<>>, result |-> <<>>]

\* scrape_all_sources up to its loop
ScrEnter(s, configured, max_articles) ==
    [s EXCEPT !.pc = "loop", !.configured = configured,
              !.sources = EnabledSources(configured),
              !.max_articles = max_articles, !.idx = 1]

\* Faulty variant: a failed fetch propagates out of the loop
ScrAfterSourceAbortsOnFailure(s, fetched) ==
    LET source == s.sources[s.idx]
        log == [s EXCEPT !.events = @ \o << <<"fetch_start", source.name>>,
                                            <<"fetch_end", source.name>> >>,
                         !.fetched = Append(@, [kind |-> fetched.kind,
                                                page |-> fetched.page, now |-> s.now])]
    IN  IF fetched.kind = "ok"
        THEN [log EXCEPT !.all_articles =
                            @ \o ScrapeSource(source, fetched, s.now, HoursLookback),
                         !.events = Append(@, <<"sleep", RateLimitDelay>>),
                         !.now = @ + RateLimitDelay, !.idx = @ + 1]
        ELSE [log EXCEPT !.pc = "returned", !.idx = @ + 1]

\* Faulty variant: the rate-limit sleep is skipped after a failed fetch
ScrAfterSourceNoSleepOnFailure(s, fetched) ==
    LET source == s.sources[s.idx]
        articles == ScrapeSource(source, fetched, s.now, HoursLookback)
        slept == fetched.kind = "ok"
    IN  [s EXCEPT !.all_articles = @ \o articles,
                  !.events = @ \o << <<"fetch_start", source.name>>,
                                     <<"fetch_end", source.name>> >>
                               \o (IF slept THEN << <<"sleep", RateLimitDelay>> >> ELSE <<>>),
                  !.fetched = Append(@, [kind |-> fetched.kind, page |-> fetched.page,
                                         now |-> s.now]),
                  !.now = IF slept THEN @ + RateLimitDelay ELSE @,
                  !.idx = @ + 1]

\* one iteration of the loop of scrape_all_sources: scrape_source fetches the
\* source and returns its articles (none when the fetch failed), they are
\* appended, then the rate-limit sleep
ScrAfterSource(s, fetched) ==
    LET source == s.sources[s.idx]
        articles == ScrapeSource(source, fetched, s.now, HoursLookback)
    IN  [s EXCEPT !.all_articles = @ \o articles,
                  !.events = @ \o << <<"fetch_start", source.name>>,
                                     <<"fetch_end", source.name>>,
                                     <<"sleep", RateLimitDelay>> >>,
                  !.fetched = Append(@, [kind |-> fetched.kind, page |-> fetched.page,
                                         now |-> s.now]),
                  !.now = @ + RateLimitDelay,
                  !.idx = @ + 1]

\* past the loop: sort, truncate, return
ScrAfterLoop(s) ==
    [s EXCEPT !.pc = "returned",
              !.result = LimitedArticles(s.all_articles, s.max_articles)]

ScrCall ==
    /\ scr.pc = "idle"
    /\ \E configured \in SourceConfigs, max_articles \in 1..MaxKeep :
           scr' = ScrEnter(scr, configured, max_articles)
    /\ UNCHANGED <<sm, orch, sched, threads, mail>>

ScrOne ==
    /\ scr.pc = "loop"
    /\ scr.idx <= Len(scr.sources)
    /\ \E fetched \in FetchOutcomes : scr' = ScrAfterSource(scr, fetched)
    /\ UNCHANGED <<sm, orch, sched, threads, mail>>

ScrFinish ==
    /\ scr.pc = "loop"
    /\ scr.idx > Len(scr.sources)
    /\ scr' = ScrAfterLoop(scr)
    /\ UNCHANGED <<sm, orch, sched, threads, mail>>

ScrNext == ScrCall \/ ScrOne \/ ScrFinish

-----------------------------------------------------------------------------
(* NewsScheduler                                                           *)

SleepSeconds == 60         \* time.sleep(60) in _run_scheduler
JoinTimeout == 5           \* scheduler_thread.join(timeout=5)

\* The threads start_scheduler can create, in the order it creates them.
ThreadIds == {1, 2}
NoThread == 0              \* scheduler_thread = None

\* task_failed: the task raised in the loop iteration the thread is in
ThreadUnborn == [pc |-> "unborn", timer |-> 0, task_failed |-> FALSE]

\* NewsScheduler.__init__, and the caller's position: "idle" between calls,
\* "joining" inside the join of stop_scheduler.  last_call: the last call
\* made and whether its guard returned early; ticked: time has passed since
\* that call; stop_immediate: the stop_scheduler in progress or last
\* completed directly followed a start_scheduler that started a thread;
\* stopped: that stop_scheduler has returned.
SchedNew ==
    [pc |-> "new", enabled |-> TRUE, is_running |-> FALSE,
     scheduler_thread |-> NoThread, jobs |-> 0, join_left |-> 0,
     last_call |-> "none", ticked |-> FALSE, stop_immediate |-> FALSE,
     stopped |-> FALSE]

Immediate(s) == s.last_call = "start" /\ ~s.ticked

Unborn == {t \in ThreadIds : threads[t].pc = "unborn"}

Alive(t) == t # NoThread /\ threads[t].pc \notin {"unborn", "ended"}

\* Faulty variant: start_scheduler without its test of is_running
StartReturnsEarlyNoRunningTest(s) == ~s.enabled

\* the guards of start_scheduler that make the call return at once
StartReturnsEarly(s) == s.is_running \/ ~s.enabled

\* the guard of stop_scheduler that makes the call return at once
StopReturnsEarly(s) == ~s.is_running

\* NewsScheduler(config_manager): scheduling.enabled is configuration
SchedConstruct ==
    /\ sched.pc = "new"
    /\ \E enabled \in BOOLEAN : sched' = [sched EXCEPT !.pc = "idle", !.enabled = enabled]
    /\ UNCHANGED <<sm, orch, threads, mail, scr>>

\* schedule_daily_task: schedule.clear(), then one daily job is registered
ScheduleDailyTask ==
    /\ sched.pc = "idle"
    /\ sched' = [sched EXCEPT !.jobs = 1, !.last_call = "schedule", !.ticked = FALSE]
    /\ UNCHANGED <<sm, orch, threads, mail, scr>>

\* start_scheduler: nothing when already running or disabled; else is_running
\* is set and a new daemon thread runs _run_scheduler
StartScheduler ==
    /\ sched.pc = "idle"
    /\ IF StartReturnsEarly(sched)
       THEN /\ sched' = [sched EXCEPT !.last_call = "start_early", !.ticked = FALSE]
            /\ UNCHANGED threads
       ELSE /\ Unborn # {}
            /\ LET t == SetMin(Unborn) IN
                /\ sched' = [sched EXCEPT !.is_running = TRUE, !.scheduler_thread = t,
                                          !.last_call = "start", !.ticked = FALSE,
                                          !.stopped = FALSE]
                /\ threads' = [threads EXCEPT ![t] = [ThreadUnborn EXCEPT !.pc = "check"]]
    /\ UNCHANGED <<sm, orch, mail, scr>>

\* stop_scheduler up to the join: nothing when not running; else is_running
\* is cleared, the jobs are cleared and a live thread is joined for at most
\* JoinTimeout seconds
StopScheduler ==
    /\ sched.pc = "idle"
    /\ IF StopReturnsEarly(sched)
       THEN sched' = [sched EXCEPT !.last_call = "stop_early", !.ticked = FALSE]
       ELSE sched' = [sched EXCEPT
                !.is_running = FALSE, !.jobs = 0,
                !.stop_immediate = Immediate(sched),
                !.last_call = "stop", !.ticked = FALSE,
                !.pc = IF Alive(sched.scheduler_thread) THEN "joining" ELSE "idle",
                !.join_left = IF Alive(sched.scheduler_thread) THEN JoinTimeout ELSE 0,
                !.stopped = ~Alive(sched.scheduler_thread)]
    /\ UNCHANGED <<sm, orch, threads, mail, scr>>

\* join(timeout=5) returns: the thread has ended, or the timeout has passed
JoinReturns ==
    /\ sched.pc = "joining"
    /\ ~Alive(sched.scheduler_thread) \/ sched.join_left = 0
    /\ sched' = [sched EXCEPT !.pc = "idle", !.join_left = 0, !.stopped = TRUE]
    /\ UNCHANGED <<sm, orch, threads, mail, scr>>

\* _run_scheduler: the test of the while loop
ThreadCheck(t) ==
    /\ threads[t].pc = "check"
    /\ threads' = [threads EXCEPT ![t].pc = IF sched.is_running THEN "pending" ELSE "ended",
                                  ![t].task_failed = FALSE]
    /\ UNCHANGED <<sm, orch, sched, mail, scr>>

\* what one schedule.run_pending() can do: no job is due; the due job runs
\* _safe_task_execution and the task returns or raises; run_pending itself
\* raises
PendingOutcomes(s) ==
    {"no_job_due", "loop_error"}
        \cup (IF s.jobs > 0 THEN {"task_ok", "task_failed"} ELSE {})

\* Faulty variant: a failure of the task ends the loop thread
ThreadAfterPendingDiesOnFailure(th, outcome) ==
    IF outcome = "task_failed"
    THEN [th EXCEPT !.pc = "ended", !.task_failed = TRUE]
    ELSE [th EXCEPT !.pc = "sleep", !.timer = SleepSeconds, !.task_failed = FALSE]

\* the body of the while loop up to the sleep.  A failure of the task is
\* caught and logged by _safe_task_execution, an error of run_pending by the
\* except clause of the loop; either way the thread sleeps 60 seconds next.
ThreadAfterPending(th, outcome) ==
    [th EXCEPT !.pc = "sleep", !.timer = SleepSeconds,
               !.task_failed = (outcome = "task_failed")]

ThreadRunPending(t) ==
    /\ threads[t].pc = "pending"
    /\ \E outcome \in PendingOutcomes(sched) :
           threads' = [threads EXCEPT ![t] = ThreadAfterPending(threads[t], outcome)]
    /\ UNCHANGED <<sm, orch, sched, mail, scr>>

\* time.sleep(60) returns
ThreadWake(t) ==
    /\ threads[t].pc = "sleep"
    /\ threads[t].timer = 0
    /\ threads' = [threads EXCEPT ![t].pc = "check"]
    /\ UNCHANGED <<sm, orch, sched, mail, scr>>

\* one second passes, for every sleeping thread and for a waiting join.  A
\* thread that is not sleeping takes its step first, a sleep or a join whose
\* time is up returns first.
Tick ==
    /\ sched.pc # "new"
    /\ \A t \in ThreadIds : threads[t].pc \notin {"check", "pending"}
    /\ \A t \in ThreadIds : threads[t].pc = "sleep" => threads[t].timer > 0
    /\ sched.pc = "joining" => sched.join_left > 0 /\ Alive(sched.scheduler_thread)
    /\ threads' = [t \in ThreadIds |->
                      IF threads[t].pc = "sleep"
                      THEN [threads[t] EXCEPT !.timer = @ - 1] ELSE threads[t]]
    /\ sched' = [sched EXCEPT !.join_left = IF sched.pc = "joining" THEN @ - 1 ELSE @,
                              !.ticked = TRUE]
    /\ UNCHANGED <<sm, orch, mail, scr>>

SchedNext ==
    \/ SchedConstruct
    \/ ScheduleDailyTask
    \/ StartScheduler
    \/ StopScheduler
    \/ JoinReturns
    \/ \E t \in ThreadIds : ThreadCheck(t)
    \/ \E t \in ThreadIds : ThreadRunPending(t)
    \/ \E t \in ThreadIds : ThreadWake(t)
    \/ Tick

-----------------------------------------------------------------------------
(* NewsOrchestrator and main                                               *)

MaxArticles == 2           \* the longest article list the scraper hands over

SummaryPrefixLen == 200    \* article.get('content', '')[:200] + '...'

\* dict.get(key, default)
Get(d, key, default) == IF key \in DOMAIN d THEN d[key] ELSE default

\* d[key] = value
SetItem(d, key, value) ==
    [k \in DOMAIN d \cup {key} |-> IF k = key THEN value ELSE d[k]]

\* Articles as the scraper builds them (content duplicates summary), and one
\* dict without a 'summary' key.
ArticleA ==
    [title |-> "A", url |-> "a", summary |-> TwoSentences, content |-> TwoSentences,
     published_date |-> RecentTime, source |-> "s1"]
ArticleB ==
    [title |-> "B", url |-> "", summary |-> ShortText, content |-> ShortText,
     published_date |-> StartTime, source |-> "s1"]
ArticleC ==
    [title |-> "C", url |-> "c", content |-> LongText,
     published_date |-> EdgeTime, source |-> "s2"]

OrchArticles == {ArticleA, ArticleB, ArticleC}

ArticleLists ==
    {l \in UNION {[1..n -> OrchArticles] : n \in 0..MaxArticles} :
        \A i, j \in 1..Len(l) : i # j => l[i] # l[j]}

\* what NewsScraper.scrape_all_sources can do for the orchestrator
ScrapeOutcomes ==
    {[kind |-> "raise", articles |-> <<>>]}
        \cup {[kind |-> "return", articles |-> l] : l \in ArticleLists}

\* EmailFormatter.format_email: the rendering of the article list
FormatEmail(articles) ==
    [subject |-> "subject", html_body |-> <<"html", articles>>,
     text_body |-> <<"text", articles>>]

\* EmailSender.send_email returns a boolean and raises nothing
SendEmailReturns == {"True", "False"}

\* scraper: how scrape_all_sources ended ("return" or "raise"), "none" before;
\* logged: what run_daily_process logged at its end: "skipped" (warning, no
\* articles), "completed" (info, completed successfully) or "error"
OrchIdle ==
    [pc |-> "idle", retry_attempts |-> 0, articles |-> <<>>, summarized |-> <<>>,
     i |-> 0, sum_log |-> <<>>, email_content |-> FormatEmail(<<>>), log |-> <<>>,
     send_result |-> "none", exit_code |-> -1, scraper |-> "none",
     logged |-> "none"]

\* one entry of the run's log: a step starts with its argument or ends with
\* its result
Started(step, arg) == [step |-> step, ev |-> "start", data |-> arg]
Ended(step, out) == [step |-> step, ev |-> "end", data |-> out]

\* NewsOrchestrator.scrape_articles: the scraper's list, or [] when it raised
ScrapeArticles(outcome) ==
    IF outcome.kind = "raise" THEN <<>> ELSE outcome.articles

\* Faulty variant: the run goes on to the summarizer with an empty list
OrchAfterScrapeNoEmptyTest(o, outcome) ==
    LET articles == ScrapeArticles(outcome)
    IN  [o EXCEPT !.articles = articles, !.scraper = outcome.kind,
                  !.pc = "summarize", !.i = 1, !.summarized = <<>>,
                  !.log = @ \o <<Started("scrape", <<>>), Ended("scrape", articles),
                                 Started("summarize", articles)>>]

\* run_daily_process, step 1: scrape, return when there is no article, else
\* call summarize_articles(articles)
OrchAfterScrape(o, outcome) ==
    LET articles == ScrapeArticles(outcome)
        scraped == [o EXCEPT !.articles = articles, !.scraper = outcome.kind,
                             !.log = @ \o <<Started("scrape", <<>>), Ended("scrape", articles)>>]
    IN  IF articles = <<>>
        THEN [scraped EXCEPT !.pc = "returned", !.logged = "skipped"]
        ELSE [scraped EXCEPT !.pc = "summarize", !.i = 1, !.summarized = <<>>,
                             !.log = Append(@, Started("summarize", articles))]

\* Faulty variant: on an error the fallback text is also stored as the
\* article's summary
SummarizeArticleOverwritesSummary(article, summarize_end) ==
    LET fallback == Get(article, "summary",
                        Take(Get(article, "content", <<>>), SummaryPrefixLen) \o Ellipsis)
    IN  IF summarize_end.pc = "returned"
        THEN SetItem(article, "ai_summary", summarize_end.result)
        ELSE SetItem(SetItem(article, "summary", Take(fallback, SummaryPrefixLen)),
                     "ai_summary", fallback)

\* the body of the loop of summarize_articles for one article, given how
\* the summarize call ended: its result, or on an error the article's
\* summary, by default the first 200 characters of the content and '...'
SummarizeArticle(article, summarize_end) ==
    IF summarize_end.pc = "returned"
    THEN SetItem(article, "ai_summary", summarize_end.result)
    ELSE SetItem(article, "ai_summary",
                 Get(article, "summary",
                     Take(Get(article, "content", <<>>), SummaryPrefixLen) \o Ellipsis))

\* Faulty variant: an article whose summarization failed is left out of the result
OrchAfterArticleDropsFailed(o, summarize_end) ==
    LET article == SummarizeArticle(o.articles[o.i], summarize_end)
        entry == [pc |-> summarize_end.pc, result |-> summarize_end.result]
    IN  IF summarize_end.pc = "returned"
        THEN [o EXCEPT !.articles[o.i] = article, !.summarized = Append(@, article),
                       !.sum_log = Append(@, entry), !.i = @ + 1]
        ELSE [o EXCEPT !.sum_log = Append(@, entry), !.i = @ + 1]

\* one iteration of the loop: the article is changed in place and appended
OrchAfterArticle(o, summarize_end) ==
    LET article == SummarizeArticle(o.articles[o.i], summarize_end)
    IN  [o EXCEPT !.articles[o.i] = article,
                  !.summarized = Append(@, article),
                  !.sum_log = Append(@, [pc |-> summarize_end.pc,
                                         result |-> summarize_end.result]),
                  !.i = @ + 1]

\* summarize_articles returns; run_daily_process goes on to step 3
OrchAfterSummarize(o) ==
    [o EXCEPT !.pc = "format", !.log = Append(@, Ended("summarize", o.summarized))]

\* Faulty variant: the formatter is given the list as the scraper returned it
OrchAfterFormatOfScraped(o, ok) ==
    LET scraped == o.log[2].data
        called == [o EXCEPT !.log = Append(@, Started("format", scraped))]
    IN  IF ok
        THEN [called EXCEPT !.pc = "send", !.email_content = FormatEmail(scraped),
                            !.log = Append(@, Ended("format", FormatEmail(scraped)))]
        ELSE [called EXCEPT !.pc = "raised", !.logged = "error"]

\* run_daily_process, step 3: format_email(summarized_articles); an error is
\* logged and re-raised
OrchAfterFormat(o, ok) ==
    LET called == [o EXCEPT !.log = Append(@, Started("format", o.summarized))]
    IN  IF ok
        THEN [called EXCEPT !.pc = "send",
                            !.email_content = FormatEmail(o.summarized),
                            !.log = Append(@, Ended("format", FormatEmail(o.summarized)))]
        ELSE [called EXCEPT !.pc = "raised", !.logged = "error"]

\* Faulty variant: a False of send_email is raised as an error of the run
OrchAfterSendRaisesOnFalse(o, result) ==
    [o EXCEPT !.pc = IF result = "False" THEN "raised" ELSE "returned",
              !.logged = IF result = "False" THEN "error" ELSE "completed",
              !.send_result = result,
              !.log = @ \o <<Started("send", o.email_content), Ended("send", result)>>]

\* run_daily_process, step 4: send_email(email_content); its result is not
\* looked at
OrchAfterSend(o, result) ==
    [o EXCEPT !.pc = "returned", !.send_result = result, !.logged = "completed",
              !.log = @ \o <<Started("send", o.email_content), Ended("send", result)>>]

\* main: ConfigManager(), setup_logging and NewsOrchestrator(config) run, or
\* raise and the process exits with status 1
MainStart ==
    /\ orch.pc = "idle"
    /\ \E startup \in {"ok", "config_error", "construct_error"},
          r \in 1..MaxRetryAttempts :
           orch' = IF startup = "ok"
                   THEN [orch EXCEPT !.pc = "scrape", !.retry_attempts = r]
                   ELSE [orch EXCEPT !.pc = "exited", !.exit_code = 1]
    /\ UNCHANGED <<sm, sched, threads, mail, scr>>

OrchScrape ==
    /\ orch.pc = "scrape"
    /\ \E outcome \in ScrapeOutcomes : orch' = OrchAfterScrape(orch, outcome)
    /\ UNCHANGED <<sm, sched, threads, mail, scr>>

OrchSummarizeOne ==
    /\ orch.pc = "summarize"
    /\ orch.i <= Len(orch.articles)
    /\ \E outcomes \in [1..orch.retry_attempts -> ApiOutcomes] :
           orch' = OrchAfterArticle(orch,
                       Summarize(Get(orch.articles[orch.i], "content", <<>>),
                                 orch.retry_attempts, outcomes))
    /\ UNCHANGED <<sm, sched, threads, mail, scr>>

OrchSummarizeEnd ==
    /\ orch.pc = "summarize"
    /\ orch.i > Len(orch.articles)
    /\ orch' = OrchAfterSummarize(orch)
    /\ UNCHANGED <<sm, sched, threads, mail, scr>>

OrchFormat ==
    /\ orch.pc = "format"
    /\ \E ok \in BOOLEAN : orch' = OrchAfterFormat(orch, ok)
    /\ UNCHANGED <<sm, sched, threads, mail, scr>>

OrchSend ==
    /\ orch.pc = "send"
    /\ \E result \in SendEmailReturns : orch' = OrchAfterSend(orch, result)
    /\ UNCHANGED <<sm, sched, threads, mail, scr>>

\* Faulty variant: main logs the error of run_daily_process and ends normally
MainExitWithoutStatus ==
    /\ orch.pc \in {"returned", "raised"}
    /\ orch' = [orch EXCEPT !.pc = "exited", !.exit_code = 0]
    /\ UNCHANGED <<sm, sched, threads, mail, scr>>

\* main after run_daily_process: a normal return ends the process with
\* status 0, an error with sys.exit(1)
MainExit ==
    /\ orch.pc \in {"returned", "raised"}
    /\ orch' = [orch EXCEPT !.pc = "exited",
                            !.exit_code = IF orch.pc = "raised" THEN 1 ELSE 0]
    /\ UNCHANGED <<sm, sched, threads, mail, scr>>

OrchNext ==
    \/ MainStart
    \/ OrchScrape
    \/ OrchSummarizeOne
    \/ OrchSummarizeEnd
    \/ OrchFormat
    \/ OrchSend
    \/ MainExit

-----------------------------------------------------------------------------
Init ==
    /\ sm = SumIdle
    /\ orch = OrchIdle
    /\ sched = SchedNew
    /\ threads = [t \in ThreadIds |-> ThreadUnborn]
    /\ mail = MailIdle
    /\ scr = ScrIdle

SumSpec == Init /\ [][SumNext]_vars

MailSpec == Init /\ [][MailNext]_vars

ScrSpec == Init /\ [][ScrNext]_vars

SchedSpec == Init /\ [][SchedNext]_vars

OrchSpec == Init /\ [][OrchNext]_vars

-----------------------------------------------------------------------------
(* Claims about GeminiSummarizer                                           *)

SumFinished == sm.pc \in {"returned", "raised"}

\* every API attempt of the call was made and failed
AllAttemptsFailed ==
    /\ SumFinished
    /\ Len(Strip(sm.content)) >= MinContentLen
    /\ Len(sm.outs) = sm.retry_attempts
    /\ \A i \in 1..Len(sm.outs) : sm.outs[i] \in {"empty", "error"}

\* C1: for content of at least 50 characters, when every one of the
\* retry_attempts API attempts fails (raises or returns empty text), summarize
\* returns the extractive fallback summary and raises nothing.
C1_FallbackNeverRaises ==
    AllAttemptsFailed =>
        /\ sm.pc = "returned"
        /\ sm.result = CreateFallbackSummary(sm.content)

-----------------------------------------------------------------------------
(* Claims about NewsOrchestrator                                           *)

\* the list summarize_articles was called with, as the scraper returned it
OrchInput == orch.log[2].data

SummarizeStarted == Len(orch.log) >= 3
SummarizeEnded == Len(orch.log) >= 4

\* the ai_summary the claim prescribes for the k-th article
PrescribedSummary(k) ==
    IF orch.sum_log[k].pc = "returned" THEN orch.sum_log[k].result
    ELSE IF "summary" \in DOMAIN OrchInput[k] THEN OrchInput[k].summary
    ELSE Take(OrchInput[k].content, SummaryPrefixLen) \o Ellipsis

\* C2: a summarization failure on one article does not abort the batch: the
\* result of summarize_articles holds exactly the input articles in input
\* order, each with an ai_summary that is the summarizer's result or, on
\* failure, the article's summary, or the first 200 characters of its content
\* and '...' when it has no summary field.
C2_BatchSurvivesFailures ==
    SummarizeStarted =>
        /\ Len(orch.summarized) = Len(orch.sum_log)
        /\ Len(orch.summarized) <= Len(OrchInput)
        /\ SummarizeEnded => Len(orch.log[4].data) = Len(OrchInput)
        /\ \A k \in 1..Len(orch.summarized) :
              /\ DOMAIN orch.summarized[k] = DOMAIN OrchInput[k] \cup {"ai_summary"}
              /\ \A key \in DOMAIN OrchInput[k] :
                    orch.summarized[k][key] = OrchInput[k][key]
              /\ orch.summarized[k].ai_summary = PrescribedSummary(k)

\* a batch is complete although the summarization of an article before the
\* last one failed, and that article has no summary field
C2_Witness ==
    /\ SummarizeEnded
    /\ Len(orch.log[4].data) >= 2
    /\ \E k \in 1..(Len(OrchInput) - 1) :
          /\ orch.sum_log[k].pc = "raised"
          /\ "summary" \notin DOMAIN OrchInput[k]
          /\ Len(OrchInput[k].content) > SummaryPrefixLen

StepOrder ==
    << <<"scrape", "start">>, <<"scrape", "end">>, <<"summarize", "start">>,
       <<"summarize", "end">>, <<"format", "start">>, <<"format", "end">>,
       <<"send", "start">>, <<"send", "end">> >>

\* C3: within one run the steps occur in the order scrape, summarize, format,
\* send, each starting after the previous one has ended and none more than
\* once; the summarizer is given the scraper's output, the formatter the
\* summarizer's output and the sender the formatter's output.
C3_StepsInOrder ==
    /\ Len(orch.log) <= Len(StepOrder)
    /\ \A k \in 1..Len(orch.log) : <<orch.log[k].step, orch.log[k].ev>> = StepOrder[k]
    /\ Len(orch.log) >= 3 => orch.log[3].data = orch.log[2].data
    /\ Len(orch.log) >= 5 => orch.log[5].data = orch.log[4].data
    /\ Len(orch.log) >= 7 => orch.log[7].data = orch.log[6].data

\* a run went through all four steps, the summarizer having added a summary
C3_Witness ==
    /\ orch.pc = "returned"
    /\ Len(orch.log) = Len(StepOrder)
    /\ orch.log[4].data # orch.log[2].data

-----------------------------------------------------------------------------
(* Claims about NewsScheduler                                              *)

\* C4: after start_scheduler() directly followed by stop_scheduler(),
\* is_running is false and the loop thread has ended when stop_scheduler
\* returns from its join of at most 5 seconds.
C4_ImmediateStopEndsThread ==
    (sched.stopped /\ sched.stop_immediate) =>
        /\ ~sched.is_running
        /\ ~Alive(sched.scheduler_thread)

\* what start_scheduler and stop_scheduler act on
SchedulerUnchanged ==
    /\ sched'.is_running = sched.is_running
    /\ sched'.scheduler_thread = sched.scheduler_thread
    /\ sched'.jobs = sched.jobs
    /\ sched'.pc = sched.pc
    /\ threads' = threads

\* C5: start_scheduler while running and stop_scheduler while stopped change
\* nothing: is_running, the thread, the jobs are as before, no thread is
\* created.
C5_RedundantCallsChangeNothing ==
    [][ /\ (StartScheduler /\ sched.is_running) => SchedulerUnchanged
        /\ (StopScheduler /\ ~sched.is_running) => SchedulerUnchanged ]_vars

\* start_scheduler was called on a running scheduler with a registered job
C5_Witness ==
    /\ sched.last_call = "start_early"
    /\ sched.is_running
    /\ Alive(sched.scheduler_thread)
    /\ sched.jobs = 1

\* C6: a failure of the scheduled task does not end the scheduler loop: the
\* thread goes on to its 60 second sleep and from there to the next test of
\* is_running; it ends only when that test finds is_running false.
C6_LoopSurvivesTaskFailure ==
    [][ \A t \in ThreadIds :
          /\ (threads[t].pc = "pending" /\ threads'[t].task_failed)
                => (threads'[t].pc = "sleep" /\ threads'[t].timer = SleepSeconds)
          /\ (threads[t].pc = "sleep" /\ threads'[t].pc # "sleep")
                => (threads'[t].pc = "check" /\ threads[t].timer = 0)
          /\ (threads[t].pc # "ended" /\ threads'[t].pc = "ended")
                => (threads[t].pc = "check" /\ ~sched.is_running) ]_vars

\* a loop thread whose task failed has slept and is back at its test, the
\* scheduler still running
C6_Witness ==
    \E t \in ThreadIds :
        /\ threads[t].pc = "check"
        /\ threads[t].task_failed
        /\ sched.is_running

-----------------------------------------------------------------------------
(* Claims about EmailSender                                                *)

\* C7: once the session is open and authenticated, a send is attempted
\* exactly once for every configured recipient, in list order; a failed send
\* does not prevent the attempts for the recipients after it.
C7_EveryRecipientAttempted ==
    /\ Len(mail.attempts) <= Len(mail.recipients)
    /\ \A k \in 1..Len(mail.attempts) : mail.attempts[k].to = mail.recipients[k]
    /\ mail.session # "ok" => mail.attempts = <<>>
    /\ (mail.pc = "returned" /\ mail.session = "ok")
          => Len(mail.attempts) = Len(mail.recipients)

\* all three recipients were attempted although the first send failed
C7_Witness ==
    /\ mail.pc = "returned"
    /\ Len(mail.recipients) = 3
    /\ Len(mail.attempts) = 3
    /\ ~mail.attempts[1].ok
    /\ mail.attempts[3].ok

\* C8: send_email returns True exactly when the message construction and the
\* session (connect, optional TLS upgrade, login) succeeded, whatever the
\* per-recipient sends did, and returns False without raising otherwise.
C8_TrueIffSessionSucceeded ==
    mail.pc = "returned" =>
        /\ mail.result \in {"True", "False"}
        /\ mail.result = "True" <=> (mail.construct = "ok" /\ mail.session = "ok")

-----------------------------------------------------------------------------
(* Claims about NewsScraper                                                *)

\* the sources whose iteration of the loop is over
ScrDone == scr.idx - 1

\* the names of the enabled sources in configured order
EnabledNames ==
    LET enabled == SelectSeq(scr.configured, LAMBDA s : s.enabled)
    IN  [k \in 1..Len(enabled) |-> enabled[k].name]

\* the names of the sources fetched, in the order of the fetches
FetchedNames ==
    LET starts == SelectSeq(scr.events, LAMBDA e : e[1] = "fetch_start")
    IN  [k \in 1..Len(starts) |-> starts[k][2]]

\* the collected articles of one source
CollectedFrom(name) == SelectSeq(scr.all_articles, LAMBDA a : a.source = name)

\* C9: the enabled sources are fetched one at a time in configured order; a
\* source whose fetch fails contributes no article, the sources after it are
\* still fetched and the articles collected before are kept.
C9_FailedSourceSkipped ==
    scr.pc # "idle" =>
        /\ ScrDone <= Len(EnabledNames)
        /\ FetchedNames = SubSeq(EnabledNames, 1, ScrDone)
        /\ scr.pc = "returned" => ScrDone = Len(EnabledNames)
        /\ \A k \in 1..ScrDone :
              CollectedFrom(EnabledNames[k]) =
                  IF scr.fetched[k].kind = "ok"
                  THEN ScrapeElements(scr.fetched[k].page, EnabledNames[k],
                                      scr.fetched[k].now, HoursLookback)
                  ELSE <<>>

\* the first source gave articles, the second failed, and the call returned
\* the first source's articles
C9_Witness ==
    /\ scr.pc = "returned"
    /\ Len(scr.sources) = 2
    /\ scr.fetched[1].kind = "ok"
    /\ scr.fetched[2].kind = "http_error"
    /\ scr.all_articles # <<>>
    /\ scr.result # <<>>

\* C10: after every source's scrape attempt, failed or not, the scraper
\* sleeps rate_limit_delay exactly once before the next fetch begins; a fetch
\* ends before the next one starts.
C10_SleepAfterEverySource ==
    scr.pc # "idle" =>
        /\ Len(scr.events) = 3 * ScrDone
        /\ \A k \in 1..ScrDone :
              /\ scr.events[3 * k - 2] = <<"fetch_start", scr.sources[k].name>>
              /\ scr.events[3 * k - 1] = <<"fetch_end", scr.sources[k].name>>
              /\ scr.events[3 * k] = <<"sleep", RateLimitDelay>>

\* two sources were fetched, the first fetch failed, the second did not
C10_Witness ==
    /\ scr.pc = "returned"
    /\ Len(scr.sources) = 2
    /\ scr.fetched[1].kind = "network_error"
    /\ scr.fetched[2].kind = "ok"

\* how many times the article a occurs in the list
Occurrences(list, a) == Cardinality({i \in 1..Len(list) : list[i] = a})

\* C11: scrape_all_sources returns at most max_articles articles in order of
\* non-increasing published_date; they are collected articles, as many as
\* max_articles allows, and no collected article left out is dated later
\* than a returned one.
C11_LatestArticlesSortedDesc ==
    scr.pc = "returned" =>
        /\ Len(scr.result) = Min(scr.max_articles, Len(scr.all_articles))
        /\ \A i, j \in 1..Len(scr.result) :
              i < j => scr.result[i].published_date >= scr.result[j].published_date
        /\ \A i \in 1..Len(scr.result) :
              Occurrences(scr.result, scr.result[i])
                  <= Occurrences(scr.all_articles, scr.result[i])
        /\ \A k \in 1..Len(scr.all_articles) :
              Occurrences(scr.result, scr.all_articles[k])
                      < Occurrences(scr.all_articles, scr.all_articles[k])
                  => \A i \in 1..Len(scr.result) :
                         scr.result[i].published_date
                             >= scr.all_articles[k].published_date

\* more articles were collected than max_articles, and the latest of them
\* was not among the first max_articles collected
C11_Witness ==
    /\ scr.pc = "returned"
    /\ Len(scr.all_articles) > scr.max_articles
    /\ \E k \in (scr.max_articles + 1)..Len(scr.all_articles) :
           \A i \in 1..scr.max_articles :
               scr.all_articles[k].published_date > scr.all_articles[i].published_date

\* the candidate elements fetched for the source of the article a that have
\* its title
ElementsOf(a) ==
    UNION {{scr.fetched[k].page[n] : n \in {m \in 1..Len(scr.fetched[k].page) :
                Strip(TitleElement(scr.fetched[k].page[m]).text) = a.title}} :
           k \in {h \in 1..Len(scr.fetched) : scr.sources[h].name = a.source}}

\* the article a comes from an element whose publish date could not be
\* determined (no date element, or a text no format parses)
IsUndated(a) == \E e \in ElementsOf(a) : ~e.date.parsed

\* the article a comes from an element whose date text was parsed
IsParsed(a) == \E e \in ElementsOf(a) : e.date.parsed

\* the clock when the source of the article a was fetched
FetchTime(a) ==
    LET k == CHOOSE h \in 1..Len(scr.fetched) : scr.sources[h].name = a.source
    IN  scr.fetched[k].now

\* C12 as stated: in the result of scrape_all_sources an article whose
\* publish date could not be determined is ordered by the minimum sentinel
\* date and so comes after every article with a parsed date.
C12_UndatedSortLast ==
    scr.pc = "returned" =>
        \A i, j \in 1..Len(scr.result) :
            (IsUndated(scr.result[i]) /\ IsParsed(scr.result[j]))
                => (j < i /\ SortKey(scr.result[i]) = DateMin)

\* C12 amended: every titled element without a determinable date gives a
\* collected article whose published_date is the time of its extraction; the
\* sort key of such an article is that time, never the sentinel, so in the
\* result it comes before every article with an earlier parsed date.
C12_UndatedSortByExtractionTime ==
    /\ \A k \in 1..Len(scr.fetched) : \A n \in 1..Len(scr.fetched[k].page) :
          LET e == scr.fetched[k].page[n]
              title == Strip(TitleElement(e).text)
          IN  (TitleElement(e).present /\ Len(title) >= MinTitleLen /\ ~e.date.parsed)
                  => \E m \in 1..Len(scr.all_articles) :
                         /\ scr.all_articles[m].title = title
                         /\ scr.all_articles[m].source = scr.sources[k].name
                         /\ scr.all_articles[m].published_date = scr.fetched[k].now
    /\ scr.pc = "returned" =>
          \A i \in 1..Len(scr.result) :
              IsUndated(scr.result[i]) =>
                  /\ SortKey(scr.result[i]) = FetchTime(scr.result[i])
                  /\ \A j \in 1..Len(scr.result) :
                        (IsParsed(scr.result[j])
                            /\ scr.result[j].published_date < FetchTime(scr.result[i]))
                            => i < j

\* the result holds an article without a determinable date ahead of an
\* article with a parsed date
C12_Witness ==
    /\ scr.pc = "returned"
    /\ \E i, j \in 1..Len(scr.result) :
           i < j /\ IsUndated(scr.result[i]) /\ IsParsed(scr.result[j])

\* the element has a title element whose text has at least 10 characters
Titled(e) ==
    TitleElement(e).present /\ Len(Strip(TitleElement(e).text)) >= MinTitleLen

\* the titled elements of the k-th fetched page that the recency rule keeps:
\* a parsed date at or after the cutoff now - hours_lookback, or no
\* determinable date
RecentElements(k) ==
    SelectSeq(scr.fetched[k].page,
              LAMBDA e : Titled(e) /\ (e.date.parsed =>
                  e.date.t >= scr.fetched[k].now - HoursLookback * SecondsPerHour))

\* C13: of the titled elements of a fetched page, exactly those with a
\* parsed date at or after now - hours_lookback and those without a
\* determinable date (dated now) become collected articles, in page order;
\* every element with a parsed date before the cutoff is dropped.
C13_RecencyFilter ==
    \A k \in 1..Len(scr.fetched) :
        LET collected == CollectedFrom(scr.sources[k].name)
            recent == RecentElements(k)
        IN  /\ Len(collected) = Len(recent)
            /\ \A n \in 1..Len(recent) :
                  /\ collected[n].title = Strip(TitleElement(recent[n]).text)
                  /\ collected[n].published_date =
                        IF recent[n].date.parsed THEN recent[n].date.t
                        ELSE scr.fetched[k].now

\* one fetched page held an article dated exactly at the cutoff, which was
\* kept, an older one, which was dropped, and an undatable one, which was kept
C13_Witness ==
    /\ scr.pc = "returned"
    /\ \E k \in 1..Len(scr.fetched) :
           /\ scr.fetched[k].page = <<CutoffElement, OldElement, BadDateElement>>
           /\ scr.fetched[k].now - HoursLookback * SecondsPerHour = CutoffTime
           /\ Len(CollectedFrom(scr.sources[k].name)) = 2

\* C20: a candidate element without a title element, or whose title text
\* (class-keyword match, else first heading, else first anchor; stripped) has
\* fewer than 10 characters, gives no article: each source contributes at
\* most as many articles as its page has titled elements, none under the
\* title of an untitled element, and no collected or returned article has a
\* title shorter than 10 characters.
C20_ShortTitleYieldsNoArticle ==
    /\ \A k \in 1..Len(scr.fetched) :
          LET page == scr.fetched[k].page
              collected == CollectedFrom(scr.sources[k].name)
          IN  /\ Len(collected) <= Len(SelectSeq(page, Titled))
              /\ \A n \in 1..Len(page) :
                    ~Titled(page[n]) =>
                        \A m \in 1..Len(collected) :
                            collected[m].title # Strip(TitleElement(page[n]).text)
    /\ \A m \in 1..Len(scr.all_articles) :
          Len(scr.all_articles[m].title) >= MinTitleLen
    /\ \A m \in 1..Len(scr.result) : Len(scr.result[m].title) >= MinTitleLen

\* a page with an element whose title has 9 characters and a recent element
\* with a longer title was fetched: one article came of it
C20_Witness ==
    /\ scr.pc = "returned"
    /\ \E k \in 1..Len(scr.fetched) :
           /\ scr.fetched[k].page = <<ShortTitleElement, BadDateElement>>
           /\ Len(CollectedFrom(scr.sources[k].name)) = 1
           /\ scr.result # <<>>

-----------------------------------------------------------------------------
(* Claims about the retries and the fallback of GeminiSummarizer           *)

\* the positions of the API calls among the events of the call
CallPositions == {i \in 1..Len(sm.events) : sm.events[i] = "call"}

\* C14: summarize calls the API at most retry_attempts times, makes no call
\* after a non-empty response, and sleeps retry_delay between any two
\* consecutive calls, whether the earlier one raised or returned an empty
\* response.
C14_RetriesWithDelay ==
    /\ Cardinality(CallPositions) <= sm.retry_attempts
    /\ \A k \in 1..Len(sm.outs) : sm.outs[k] = "text" => k = Len(sm.outs)
    /\ \A i \in CallPositions :
          i < Len(sm.events) =>
              /\ sm.events[i + 1] = "sleep"
              /\ i + 1 < Len(sm.events) => sm.events[i + 2] = "call"

\* the call returned what _create_fallback_summary made of the content
FallbackReturned ==
    /\ sm.pc = "returned"
    /\ Len(Strip(sm.content)) >= MinContentLen
    /\ \A k \in 1..Len(sm.outs) : sm.outs[k] # "text"

\* the sentences of the content, split on ". " and stripped
StrippedSentences(content) ==
    LET sentences == SplitDotSpace(content)
    IN  [k \in 1..Len(sentences) |-> Strip(sentences[k])]

\* C15: when no sentence of the content qualifies for the extractive
\* summary (the first non-blank sentence has more than 100 words, or every
\* sentence is blank), the fallback summary is the first 200 characters of
\* the content followed by "...".
C15_TruncationWhenNoSentenceQualifies ==
    LET nonblank == SelectSeq(StrippedSentences(sm.content), LAMBDA x : x # <<>>)
    IN  (FallbackReturned
            /\ (nonblank = <<>> \/ WordCount(nonblank[1]) > MaxSummaryWords))
            => sm.result = Take(sm.content, TruncateLen) \o Ellipsis

\* the words of the first m sentences
RECURSIVE WordsOfFirst(_, _)
WordsOfFirst(sentences, m) ==
    IF m = 0 THEN 0
    ELSE WordsOfFirst(sentences, m - 1) + WordCount(sentences[m])

\* the leading non-blank sentences among the given ones: as many as three,
\* fewer where the next one would take the total over 100 words
LeadingSentences(sentences) ==
    LET nonblank == SelectSeq(sentences, LAMBDA x : x # <<>>)
        fitting == {m \in 0..Min(MaxSummarySentences, Len(nonblank)) :
                        WordsOfFirst(nonblank, m) <= MaxSummaryWords}
    IN  SubSeq(nonblank, 1, SetMax(fitting))

EndsWithTwoDots(s) == Len(s) >= 2 /\ s[Len(s)] = "." /\ s[Len(s) - 1] = "."

\* C16 as stated: the fallback summary is made of the leading non-blank
\* sentences of the whole content, up to three and up to 100 words, joined
\* by ". ", and ends with exactly one period.
C16_LeadingSentencesOnePeriod ==
    FallbackReturned =>
        LET joined == JoinDotSpace(LeadingSentences(StrippedSentences(sm.content)))
        IN  /\ sm.result \in {joined, joined \o <<".">>}
            /\ EndsWithDot(sm.result)
            /\ ~EndsWithTwoDots(sm.result)

\* C16 amended: the sentences are taken from the first five pieces of the
\* split only, and the summary ends with a period, which is appended only
\* when the joined sentences do not end with one already.
C16_LeadingOfFirstFiveEndsWithPeriod ==
    FallbackReturned =>
        LET scanned == Take(StrippedSentences(sm.content), MaxSentencesScanned)
            joined == JoinDotSpace(LeadingSentences(scanned))
        IN  /\ sm.result = IF EndsWithDot(joined) THEN joined ELSE joined \o <<".">>
            /\ EndsWithDot(sm.result)

\* the fallback summary of a content with more than three sentences was
\* returned: three of them are kept
C16_Witness ==
    /\ FallbackReturned
    /\ sm.content = FourSentences
    /\ sm.retry_attempts > 0
    /\ sm.result = Word(20) \o <<".", " ">> \o Word(21) \o <<".", " ">> \o Word(22) \o <<".">>

\* C18: for content shorter than 50 characters summarize returns the content
\* as it was given and makes no API call (and no sleep).
C18_ShortContentUnchanged ==
    (sm.pc # "idle" /\ Len(sm.content) < MinContentLen) =>
        /\ sm.pc = "returned"
        /\ sm.result = sm.content
        /\ sm.events = <<>>
        /\ sm.outs = <<>>

\* summarize was called with retries configured on a content of 5 characters
C18_Witness ==
    /\ sm.pc = "returned"
    /\ sm.content = ShortText
    /\ sm.retry_attempts > 0
    /\ sm.result = ShortText

-----------------------------------------------------------------------------
(* Claims about main and the article records                               *)

\* what the log of the run shows at the end of the process: start-up failed
\* before run_daily_process was called, a step of run_daily_process was
\* started and did not end, or run_daily_process went to its end (no article
\* scraped, or the e-mail handed to the sender)
StartupFailed == orch.log = <<>>
LastLogged == orch.log[Len(orch.log)]
RunRaised == orch.log # <<>> /\ LastLogged.ev = "start"
RunReturned ==
    /\ orch.log # <<>>
    /\ LastLogged.ev = "end"
    /\ \/ LastLogged.step = "send"
       \/ LastLogged.step = "scrape" /\ LastLogged.data = <<>>

\* C17: the process ends with a non-zero status when an error escaped the
\* start-up (configuration, logging, construction) or run_daily_process,
\* and with status 0 only when run_daily_process returned normally; until
\* the end there is no status.
C17_ExitStatus ==
    /\ orch.pc = "exited" =>
          /\ (StartupFailed \/ RunRaised) => orch.exit_code # 0
          /\ orch.exit_code = 0 => RunReturned
          /\ RunReturned => orch.exit_code = 0
    /\ orch.pc # "exited" => orch.exit_code = -1

\* run_daily_process raised out of the formatting step and the process
\* ended with status 1
C17_Witness ==
    /\ orch.pc = "exited"
    /\ RunRaised
    /\ LastLogged.step = "format"
    /\ orch.exit_code = 1

\* the record a is the record b with at most the key ai_summary added
SameButAiSummary(a, b) ==
    /\ DOMAIN a \ {"ai_summary"} = DOMAIN b \ {"ai_summary"}
    /\ \A f \in DOMAIN b \ {"ai_summary"} : a[f] = b[f]

\* C19: summarize_articles changes nothing of an article but ai_summary:
\* title, url, summary, content, published_date and source of every article,
\* in the list it was given and in the list it returns, stay as scraped,
\* whether the article's summarization succeeded or failed, and so they
\* reach the formatter.
C19_ArticleFieldsUnchanged ==
    SummarizeStarted =>
        /\ Len(orch.articles) = Len(OrchInput)
        /\ \A k \in 1..Len(orch.articles) :
              SameButAiSummary(orch.articles[k], OrchInput[k])
        /\ \A k \in 1..Len(orch.summarized) :
              SameButAiSummary(orch.summarized[k], OrchInput[k])
        /\ \A n \in 1..Len(orch.log) :
              (orch.log[n].step = "format" /\ orch.log[n].ev = "start") =>
                  \A k \in 1..Len(orch.log[n].data) :
                      SameButAiSummary(orch.log[n].data[k], OrchInput[k])

\* summarize_articles returned a list of two articles, one summarized and
\* one whose summarization raised
C19_Witness ==
    /\ SummarizeEnded
    /\ Len(orch.summarized) = 2
    /\ orch.sum_log[1].pc = "raised"
    /\ orch.sum_log[2].pc = "returned"
    /\ "ai_summary" \in DOMAIN orch.summarized[1]

-----------------------------------------------------------------------------
(* Claims about the scheduler's threads and the run without an e-mail      *)

\* the threads that are running _run_scheduler
LoopThreads == {t \in ThreadIds : Alive(t)}

\* C21: at any time at most one thread is running the scheduler loop; a
\* start_scheduler after a stop_scheduler does not leave the earlier loop
\* thread running beside the new one.
C21_AtMostOneLoop == Cardinality(LoopThreads) <= 1

\* C22: when scraping yields no article, the scraper having returned an
\* empty list or raised, run_daily_process returns normally right after the
\* scrape step: the summarizer, the formatter and the sender are not called,
\* no e-mail is sent, and the process ends with status 0.
C22_NoArticlesNoEmail ==
    /\ orch.scraper = "raise" => orch.articles = <<>>
    /\ (orch.scraper # "none" /\ OrchInput = <<>>) =>
          /\ orch.pc \in {"returned", "exited"}
          /\ orch.log = <<Started("scrape", <<>>), Ended("scrape", <<>>)>>
          /\ orch.sum_log = <<>>
          /\ orch.summarized = <<>>
          /\ orch.send_result = "none"
          /\ orch.pc = "exited" => orch.exit_code = 0

\* the scraper raised and the process has ended
C22_Witness ==
    /\ orch.scraper = "raise"
    /\ orch.pc = "exited"
    /\ orch.exit_code = 0
    /\ Len(orch.log) = 2

\* C23: when send_email returns False, run_daily_process raises nothing: it
\* logs the run as completed successfully and returns, and the process ends
\* with status 0.
C23_SendFailureIsSuccess ==
    orch.send_result = "False" =>
        /\ orch.pc \in {"returned", "exited"}
        /\ orch.logged = "completed"
        /\ orch.pc = "exited" => orch.exit_code = 0

\* the sender returned False for a digest of two articles and the process
\* has ended
C23_Witness ==
    /\ orch.send_result = "False"
    /\ orch.pc = "exited"
    /\ orch.exit_code = 0
    /\ Len(orch.summarized) = 2

=============================================================================
